---- MODULE Spec2Model ----
(***************************************************************************)
(* Model of EmailChecker (src/.py): the two network probes with their      *)
(* retry / rate-limit / backoff loops, the two response interpreters, the  *)
(* process_email pipeline and the run loop of main.                        *)
(*                                                                         *)
(* Strings are sequences of lexical atoms.  Every word the interpreters    *)
(* search for is an atom or a run of atoms ("existed" is <<"exist","ed">>, *)
(* "not_existed" is <<"not","_","exist","ed">>), so Python's substring     *)
(* test `p in s` is "p is a contiguous run of s".                          *)
(***************************************************************************)
EXTENDS Integers, Sequences, FiniteSets, TLC

(***************************************************************************)
(* Bounds of the model.                                                    *)
(***************************************************************************)
MaxEmails == 2

(***************************************************************************)
(* Program constants.                                                      *)
(***************************************************************************)
MAX_ATTEMPTS == 3
DEFAULT_RESET == 60
RAW_TEXT_LIMIT == 1000

DIR_EA_NOT_AVAILABLE == "ea_not_available"
DIR_NOT_AVAILABLE_EMAIL == "not_available_email"
DIR_AVAILABLE == "available"
EA_REFERER_PAGE == "https://signin.ea.com/p/juno/create"
MS_REFERER_PAGE == "https://signup.live.com/"
EA_CHECK_URL == "https://signin.ea.com/p/ajax/user/checkEmailExisted"
MS_CHECK_URL == "https://signup.live.com/API/CheckAvailableSigninNames"

(***************************************************************************)
(* Python's None and a populated slot.                                     *)
(***************************************************************************)
None == <<>>
Some(x) == <<x>>
Get(o) == o[1]

(***************************************************************************)
(* Strings.                                                                *)
(***************************************************************************)
\* `pat in text`; text is bound once, then searched
Contains(text, pat) ==
  \E t \in {text} : \E i \in 1..(Len(t) - Len(pat) + 1) : SubSeq(t, i, i + Len(pat) - 1) = pat

LowerAtom(a) ==
  CASE a = "REGISTER_EMAIL_" -> "register_email_"
    [] a = "EXIST" -> "exist"
    [] a = "ED" -> "ed"
    [] a = "Not" -> "not"
    [] a = "Available" -> "available"
    [] a = "Taken" -> "taken"
    [] a = "Already" -> "already"
    [] OTHER -> a

\* str.lower(), atom by atom; s is bound once
Lower(s) == CHOOSE r \in {[i \in DOMAIN t |-> LowerAtom(t[i])] : t \in {s}} : TRUE

Truncate(s, n) == SubSeq(s, 1, IF Len(s) < n THEN Len(s) ELSE n)

S_register_email_existed == <<"register_email_", "exist", "ed">>
S_register_email_not_existed == <<"register_email_", "not", "_", "exist", "ed">>
S_existed == <<"exist", "ed">>
S_not_existed == <<"not", "_", "exist", "ed">>
S_not == <<"not">>
S_does_not_exist == <<"does", " ", "not", " ", "exist">>
S_notavailable == <<"not", "available">>
S_already == <<"already">>
S_taken == <<"taken">>
S_available == <<"available">>

(***************************************************************************)
(* JSON values.  One record shape for every value so that values of        *)
(* different JSON types can be compared.  t = "absent" is a missing key.   *)
(***************************************************************************)
JV(t, b, n, s, l) == [t |-> t, b |-> b, n |-> n, s |-> s, l |-> l]
Absent == JV("absent", FALSE, 0, <<>>, <<>>)
Null == JV("null", FALSE, 0, <<>>, <<>>)
Bool(b) == JV("bool", b, 0, <<>>, <<>>)
Num(n) == JV("num", FALSE, n, <<>>, <<>>)
Str(s) == JV("str", FALSE, 0, s, <<>>)
List(l) == JV("list", FALSE, 0, <<>>, l)

\* Python truthiness: bool(v), `if v:`
Truthy(v) ==
  CASE v.t = "bool" -> v.b
    [] v.t = "num" -> v.n # 0
    [] v.t = "str" -> v.s # <<>>
    [] v.t = "list" -> v.l # <<>>
    [] OTHER -> FALSE

(***************************************************************************)
(* A response body: a dict over the keys the program looks at plus one     *)
(* other key ("detail"), or a non-dict JSON value (dict = FALSE, v).       *)
(***************************************************************************)
Keys == <<"message", "status", "isAvailable", "suggestions", "raw_text", "detail",
          "exists", "reason">>

Dict(m, st, ia, sg, rt, d) ==
  [dict |-> TRUE, v |-> Absent, message |-> m, status |-> st, isAvailable |-> ia,
   suggestions |-> sg, raw_text |-> rt, detail |-> d, exists |-> Absent, reason |-> Absent]
NonDict(v) ==
  [dict |-> FALSE, v |-> v, message |-> Absent, status |-> Absent, isAvailable |-> Absent,
   suggestions |-> Absent, raw_text |-> Absent, detail |-> Absent, exists |-> Absent,
   reason |-> Absent]
EmptyDict == Dict(Absent, Absent, Absent, Absent, Absent, Absent)

Field(body, k) ==
  CASE k = "message" -> body.message
    [] k = "status" -> body.status
    [] k = "isAvailable" -> body.isAvailable
    [] k = "suggestions" -> body.suggestions
    [] k = "raw_text" -> body.raw_text
    [] k = "exists" -> body.exists
    [] k = "reason" -> body.reason
    [] OTHER -> body.detail

KeyAtoms(k) ==
  IF k = "isAvailable" THEN <<"is", "Available">>
  ELSE IF k = "exists" THEN <<"exist", "s">>
  ELSE <<k>>

NumAtoms(n) == IF n = 0 THEN <<"0">> ELSE IF n = 1 THEN <<"1">> ELSE <<"5">>

RECURSIVE DumpItems(_)
DumpItems(l) ==
  IF l = <<>> THEN <<>>
  ELSE <<"\"">> \o l[1] \o <<"\"">>
       \o (IF Len(l) > 1 THEN <<", ">> \o DumpItems(Tail(l)) ELSE <<>>)

DumpVal(v) ==
  CASE v.t = "null" -> <<"null">>
    [] v.t = "bool" -> IF v.b THEN <<"true">> ELSE <<"false">>
    [] v.t = "num" -> NumAtoms(v.n)
    [] v.t = "str" -> <<"\"">> \o v.s \o <<"\"">>
    [] v.t = "list" -> <<"[">> \o DumpItems(v.l) \o <<"]">>
    [] OTHER -> <<>>

RECURSIVE DumpFields(_, _, _)
DumpFields(body, ks, first) ==
  IF ks = <<>> THEN <<>>
  ELSE IF Field(body, ks[1]).t = "absent" THEN DumpFields(body, Tail(ks), first)
  ELSE (IF first THEN <<>> ELSE <<", ">>)
       \o <<"\"">> \o KeyAtoms(ks[1]) \o <<"\"">> \o <<": ">> \o DumpVal(Field(body, ks[1]))
       \o DumpFields(body, Tail(ks), FALSE)

\* json.dumps(body): keys in insertion order, ", " and ": " separators.  The atoms of
\* the bodies hold no quote, backslash or non-ASCII character, so nothing is escaped.
JsonDumps(body) ==
  IF body.dict THEN <<"{">> \o DumpFields(body, Keys, TRUE) \o <<"}">>
  ELSE DumpVal(body.v)

(***************************************************************************)
(* Interpreter A: interpret_ea_response.  The result is the returned dict  *)
(* (exists, reason), or raised = TRUE when the call raises AttributeError  *)
(* (body.get("message", "") is not a string, so .lower() does not exist).  *)
(***************************************************************************)
VerdictA(e, r) == [raised |-> FALSE, exists |-> e, reason |-> r]
RaisedA == [raised |-> TRUE, exists |-> FALSE, reason |-> "AttributeError"]

\* body.get("message", "")
GetMessage(body) == IF body.message.t = "absent" THEN Str(<<>>) ELSE body.message

\* slip: the text scan looks for "exist" where the code looks for "existed"
interpret_ea_response_ExistScan(body) ==
  IF ~body.dict THEN VerdictA(FALSE, "not_a_dict")
  ELSE IF GetMessage(body).t # "str" THEN RaisedA
  ELSE
    LET msg == Lower(GetMessage(body).s)
        status == body.status
        text == Lower(JsonDumps(body))
    IN  IF Contains(msg, S_register_email_existed)
          THEN VerdictA(TRUE, "EA message: register_email_existed")
        ELSE IF Contains(msg, S_register_email_not_existed)
          THEN VerdictA(FALSE, "EA message: register_email_not_existed")
        ELSE IF status = Bool(FALSE) /\ Contains(msg, S_existed)
          THEN VerdictA(TRUE, "status=false with existed message")
        ELSE IF status = Bool(TRUE) /\ Contains(msg, S_not_existed)
          THEN VerdictA(FALSE, "status=true with not_existed message")
        ELSE IF Contains(text, <<"exist">>) /\ ~Contains(text, S_not)
          THEN VerdictA(TRUE, "text_heuristic_positive")
        ELSE IF Contains(text, S_not_existed) \/ Contains(text, S_does_not_exist)
          THEN VerdictA(FALSE, "text_heuristic_negative")
        ELSE VerdictA(FALSE, "no_clear_indicator")

interpret_ea_response(body) ==
  IF ~body.dict THEN VerdictA(FALSE, "not_a_dict")
  ELSE IF GetMessage(body).t # "str" THEN RaisedA
  ELSE
    LET msg == Lower(GetMessage(body).s)
        status == body.status
        text == Lower(JsonDumps(body))
    IN  IF Contains(msg, S_register_email_existed)
          THEN VerdictA(TRUE, "EA message: register_email_existed")
        ELSE IF Contains(msg, S_register_email_not_existed)
          THEN VerdictA(FALSE, "EA message: register_email_not_existed")
        ELSE IF status = Bool(FALSE) /\ Contains(msg, S_existed)
          THEN VerdictA(TRUE, "status=false with existed message")
        ELSE IF status = Bool(TRUE) /\ Contains(msg, S_not_existed)
          THEN VerdictA(FALSE, "status=true with not_existed message")
        ELSE IF Contains(text, S_existed) /\ ~Contains(text, S_not)
          THEN VerdictA(TRUE, "text_heuristic_positive")
        ELSE IF Contains(text, S_not_existed) \/ Contains(text, S_does_not_exist)
          THEN VerdictA(FALSE, "text_heuristic_negative")
        ELSE VerdictA(FALSE, "no_clear_indicator")

\* the atoms of the reason strings interpret_ea_response returns
ReasonAtoms(r) ==
  CASE r = "not_a_dict" -> <<"not", "_a_dict">>
    [] r = "EA message: register_email_existed" -> <<"EA message: ">> \o S_register_email_existed
    [] r = "EA message: register_email_not_existed"
         -> <<"EA message: ">> \o S_register_email_not_existed
    [] r = "status=false with existed message"
         -> <<"status=false with ">> \o S_existed \o <<" message">>
    [] r = "status=true with not_existed message"
         -> <<"status=true with ">> \o S_not_existed \o <<" message">>
    [] OTHER -> <<r>>

\* the returned dict {"exists": ..., "reason": ...} serialized and read back as a body
VerdictBody(v) ==
  [EmptyDict EXCEPT !.exists = Bool(v.exists), !.reason = Str(ReasonAtoms(v.reason))]

(***************************************************************************)
(* Interpreter B: interpret_ms_response.  available is Python's True,      *)
(* False or None.                                                          *)
(***************************************************************************)
VerdictB(a, r) == [available |-> a, reason |-> r]

\* slip: the suggestions test comes before the isAvailable test
interpret_ms_response_SuggestionsFirst(body) ==
  IF ~body.dict THEN VerdictB("None", "not_a_dict")
  ELSE IF Truthy(body.suggestions)
    THEN VerdictB("False", "has_suggestions")
  ELSE IF body.isAvailable.t # "absent"
    THEN VerdictB(IF Truthy(body.isAvailable) THEN "True" ELSE "False", "field:isAvailable")
  ELSE
    LET text == Lower(JsonDumps(body))
    IN  IF Contains(text, S_notavailable) \/ Contains(text, S_already) \/ Contains(text, S_taken)
          THEN VerdictB("False", "text_negative")
        ELSE IF Contains(text, S_available) /\ ~Contains(text, S_not)
          THEN VerdictB("True", "text_positive")
        ELSE VerdictB("None", "unknown")

interpret_ms_response(body) ==
  IF ~body.dict THEN VerdictB("None", "not_a_dict")
  ELSE IF body.isAvailable.t # "absent"
    THEN VerdictB(IF Truthy(body.isAvailable) THEN "True" ELSE "False", "field:isAvailable")
  ELSE IF Truthy(body.suggestions)
    THEN VerdictB("False", "has_suggestions")
  ELSE
    LET text == Lower(JsonDumps(body))
    IN  IF Contains(text, S_notavailable) \/ Contains(text, S_already) \/ Contains(text, S_taken)
          THEN VerdictB("False", "text_negative")
        ELSE IF Contains(text, S_available) /\ ~Contains(text, S_not)
          THEN VerdictB("True", "text_positive")
        ELSE VerdictB("None", "unknown")

(***************************************************************************)
(* The bodies the interpreters are exercised on.                           *)
(***************************************************************************)
MessageValues ==
  { Absent, Null, Num(5),
    Str(<<>>),
    Str(S_register_email_existed),
    Str(S_register_email_not_existed),
    Str(<<"REGISTER_EMAIL_", "EXIST", "ED">>),
    Str(S_register_email_existed \o <<" ">> \o S_register_email_not_existed),
    Str(S_existed),
    Str(S_not_existed),
    Str(<<"can", "not", " ", "verify">>),
    Str(<<"ok">>) }

StatusValues == { Absent, Null, Bool(TRUE), Bool(FALSE), Num(0) }

DetailValues ==
  { Absent,
    Str(S_existed),
    Str(S_not_existed),
    Str(S_does_not_exist),
    Str(<<"email_", "exist", "s">>),
    Str(S_notavailable),
    Str(<<"Not", "Available">>),
    Str(<<"not", " ", "available">>),
    Str(S_available),
    Str(S_already),
    Str(<<"Taken">>),
    Str(<<"ok">>) }

AvailableValues == { Absent, Null, Bool(TRUE), Bool(FALSE), Str(<<"false">>), Num(0) }

SuggestionValues ==
  { Absent, Null, List(<<>>), List(<<<<"a@b.com">>>>), List(<<<<"available">>, <<"b">>>>),
    Str(<<"none">>), Bool(TRUE) }

RawTexts == { <<"<html>", "exist", "ed", "</html>">>, <<"<html>", "not", " ", "found">>, <<>> }

NonDictBodies ==
  { NonDict(Null), NonDict(Bool(TRUE)), NonDict(Num(1)), NonDict(Str(S_register_email_existed)),
    NonDict(List(<<S_existed>>)), NonDict(Str(S_available)) }

EaDictBodies ==
  { Dict(m, st, Absent, Absent, Absent, d) : m \in MessageValues, st \in StatusValues, d \in DetailValues }

MsDictBodies ==
  { Dict(Absent, Absent, ia, sg, Absent, d) : ia \in AvailableValues, sg \in SuggestionValues,
                                               d \in DetailValues }

RawBodies == { Dict(Absent, Absent, Absent, Absent, Str(Truncate(t, RAW_TEXT_LIMIT)), Absent) : t \in RawTexts }

InterpBodies == NonDictBodies \cup EaDictBodies \cup MsDictBodies \cup RawBodies

(***************************************************************************)
(* Addresses: sequences of character atoms.                                *)
(***************************************************************************)
Addresses == { <<"a", "@", "x", ".", "com">>, <<"A", "@", "x", ".", "com">> }

RECURSIVE StripLeft(_)
StripLeft(s) == IF s # <<>> /\ s[1] = " " THEN StripLeft(Tail(s)) ELSE s
RECURSIVE StripRight(_)
StripRight(s) ==
  IF s # <<>> /\ s[Len(s)] = " " THEN StripRight(SubSeq(s, 1, Len(s) - 1)) ELSE s
\* str.strip()
Strip(s) == StripRight(StripLeft(s))

SafeAtom(a) ==
  CASE a = "@" -> "_at_"
    [] a = "." -> "_dot_"
    [] a = "A" -> "a"
    [] a \in {"a", "x", "com", "_"} -> a
    [] OTHER -> "_"

safe_filename(email) == LET s == Strip(email) IN [i \in DOMAIN s |-> SafeAtom(s[i])]

(***************************************************************************)
(* HTTP: what a service can answer to one request.                         *)
(***************************************************************************)
ContentType == <<"content-type", <<"j", "s", "o", "n">>>>
ResetHeader(v) == <<"ratelimit-reset", v>>

HeadersPlain == {ContentType}
RateLimitHeaders ==
  { {ContentType},
    {ContentType, ResetHeader(<<"2">>)},
    {ContentType, ResetHeader(<<"0">>)},
    {ContentType, ResetHeader(<<"-", "1">>)},
    {ContentType, ResetHeader(<<"s", "o", "o", "n">>)} }

OtherStatuses == {403, 500}
BackoffSeconds == {3, 4}

Digits == {"0", "1", "2", "3", "4", "5", "6", "7", "8", "9"}
DigitVal(c) ==
  CASE c = "0" -> 0 [] c = "1" -> 1 [] c = "2" -> 2 [] c = "3" -> 3 [] c = "4" -> 4
    [] c = "5" -> 5 [] c = "6" -> 6 [] c = "7" -> 7 [] c = "8" -> 8 [] OTHER -> 9

RECURSIVE DigitsVal(_, _)
DigitsVal(cs, acc) == IF cs = <<>> THEN acc ELSE DigitsVal(Tail(cs), 10 * acc + DigitVal(cs[1]))

AllDigits(cs) == cs # <<>> /\ \A i \in DOMAIN cs : cs[i] \in Digits

\* int(x) for a header string: Some(n), or None when it raises ValueError
ParseInt(cs) ==
  IF AllDigits(cs) THEN Some(DigitsVal(cs, 0))
  ELSE IF cs # <<>> /\ cs[1] = "-" /\ AllDigits(Tail(cs)) THEN Some(0 - DigitsVal(Tail(cs), 0))
  ELSE IF cs # <<>> /\ cs[1] = "+" /\ AllDigits(Tail(cs)) THEN Some(DigitsVal(Tail(cs), 0))
  ELSE None

HasHeader(headers, name) == \E h \in headers : h[1] = name
HeaderValue(headers, name) == (CHOOSE h \in headers : h[1] = name)[2]

\* int(r.headers.get('ratelimit-reset', 60))
ResetTime(headers) ==
  IF HasHeader(headers, "ratelimit-reset")
    THEN ParseInt(HeaderValue(headers, "ratelimit-reset"))
    ELSE Some(DEFAULT_RESET)

\* what r.json() / the raw_text fallback make of a payload
JsonPayload(body) == [json |-> TRUE, body |-> body, text |-> <<>>]
TextPayload(text) == [json |-> FALSE, body |-> EmptyDict, text |-> text]

ParseBody(payload) ==
  IF payload.json THEN payload.body
  ELSE Dict(Absent, Absent, Absent, Absent, Str(Truncate(payload.text, RAW_TEXT_LIMIT)), Absent)

(***************************************************************************)
(* Payloads the two services answer with in the pipeline.                  *)
(***************************************************************************)
EaPayloads ==
  { JsonPayload(Dict(Str(S_register_email_existed), Bool(FALSE), Absent, Absent, Absent, Absent)),
    JsonPayload(Dict(Str(S_register_email_not_existed), Bool(TRUE), Absent, Absent, Absent, Absent)),
    JsonPayload(Dict(Null, Bool(FALSE), Absent, Absent, Absent, Absent)),
    JsonPayload(EmptyDict),
    JsonPayload(NonDict(Null)),
    TextPayload(<<"<html>", "exist", "ed", "</html>">>) }

MsPayloads ==
  { JsonPayload(Dict(Absent, Absent, Bool(TRUE), Absent, Absent, Absent)),
    JsonPayload(Dict(Absent, Absent, Bool(FALSE), Absent, Absent, Absent)),
    JsonPayload(Dict(Absent, Absent, Absent, List(<<<<"a@b.com">>>>), Absent, Absent)),
    JsonPayload(Dict(Absent, Absent, Absent, List(<<>>), Absent, Str(S_available))),
    JsonPayload(Dict(Absent, Absent, Absent, Absent, Absent, Str(<<"ok">>))),
    JsonPayload(NonDict(Null)),
    TextPayload(<<"<html>", "not", " ", "found">>) }

Payloads(s) == IF s = "EA" THEN EaPayloads ELSE MsPayloads

\* the answers of a plain service: linked / not linked / a null message; available / suggestions
EaPlainPayloads ==
  { JsonPayload(Dict(Str(S_register_email_existed), Bool(FALSE), Absent, Absent, Absent, Absent)),
    JsonPayload(Dict(Str(S_register_email_not_existed), Bool(TRUE), Absent, Absent, Absent, Absent)),
    JsonPayload(Dict(Null, Bool(FALSE), Absent, Absent, Absent, Absent)) }
MsPlainPayloads ==
  { JsonPayload(Dict(Absent, Absent, Bool(TRUE), Absent, Absent, Absent)),
    JsonPayload(Dict(Absent, Absent, Absent, List(<<<<"a@b.com">>>>), Absent, Absent)) }
PlainPayloads(s) == IF s = "EA" THEN EaPlainPayloads ELSE MsPlainPayloads
CheckUrl(s) == IF s = "EA" THEN EA_CHECK_URL ELSE MS_CHECK_URL
\* slip: both probes refresh against the EA landing page
RefererPage_AlwaysEA(s) == EA_REFERER_PAGE

RefererPage(s) == IF s = "EA" THEN EA_REFERER_PAGE ELSE MS_REFERER_PAGE

(***************************************************************************)
(* State.                                                                  *)
(***************************************************************************)
VARIABLES
  emails,     \* main: the list of addresses of the run
  idx,        \* main: enumerate index of the address being processed (0 before the loop)
  pc,         \* position of the single thread of control
  svc,        \* the probe that is running or has just returned: "EA" or "MS"
  attempt,    \* the probe's loop variable: attempts already consumed
  hist,       \* what the running probe call has done so far, in order
  ret,        \* the probe's return value (None while it runs)
  result,     \* process_email: the record being built
  session,    \* self.s: the services whose responses fed the cookie jar, and the Referer
  msCalls,    \* check_ms_name invocations of the current process_email call
  errors,     \* main: indices whose processing ended in the except Exception branch
  clock,      \* int(time.time()) as last read
  files,      \* the result files on disk
  world,      \* how the services behave in this run: "plain" or "hostile"
  saves,      \* process_email: the completed json.dump calls ("Saved: <dest>"), in order
  interrupted,\* whether a KeyboardInterrupt has been delivered
  ibody,      \* interpreter runs: the body under interpretation
  iverdictA,  \* interpreter runs: interpret_ea_response(ibody), once computed
  iverdictB,  \* interpreter runs: interpret_ms_response(ibody), once computed
  irerun      \* interpreter runs: interpret_ea_response of the dict iverdictA holds

pvars == <<emails, idx, pc, svc, attempt, hist, ret, result, session, msCalls, errors, clock, files,
           world, saves, interrupted>>
ivars == <<ibody, iverdictA, iverdictB, irerun>>
vars == <<emails, idx, pc, svc, attempt, hist, ret, result, session, msCalls, errors, clock, files,
          world, saves, interrupted, ibody, iverdictA, iverdictB, irerun>>

(***************************************************************************)
(* Events of a probe call.                                                 *)
(***************************************************************************)
Event(ev, n, s, h) == [ev |-> ev, n |-> n, s |-> s, h |-> h]
EvRequest(s) == Event("request", 0, CheckUrl(s), {})
EvResponse(status, headers) == Event("response", status, "", headers)
EvException(kind) == Event("exception", 0, kind, {})
EvRateSleep(secs) == Event("sleep", secs, "ratelimit-reset", {})
EvRefresh(page, ok) == Event("refresh", IF ok THEN 1 ELSE 0, page, {})
EvBackoff(secs) == Event("backoff", secs, "_delay_retry", {})

\* _delay_retry
delay_retry(t) == <<EvBackoff(t)>>

\* refresh_ea_cookies / refresh_ms_cookies: the GET of the landing page, ok or swallowed failure
refresh_cookies(s, ok) == <<EvRefresh(RefererPage(s), ok)>>

\* slip: the reset header is not read, the default is slept
RateLimitEvents_DefaultOnly(headers, t) == <<EvRateSleep(DEFAULT_RESET)>>

\* the 429 branch: int(header), time.sleep(reset_time), continue; a ValueError of
\* int() or of time.sleep() of a negative number lands in the except branch
RateLimitEvents(headers, t) ==
  LET reset_time == ResetTime(headers)
  IN  IF reset_time = None THEN <<EvException("ValueError")>> \o delay_retry(t)
      ELSE IF Get(reset_time) < 0 THEN <<EvException("ValueError")>> \o delay_retry(t)
      ELSE <<EvRateSleep(Get(reset_time))>>

\* slip: the backoff is taken before the identity refresh
BadStatusEvents_BackoffFirst(s, refreshOk, t) == delay_retry(t) \o refresh_cookies(s, refreshOk)

\* slip: a failed refresh raises into the except branch of the attempt
BadStatusEvents_RefreshRaises(s, refreshOk, t) ==
  IF refreshOk THEN refresh_cookies(s, refreshOk) \o delay_retry(t)
  ELSE refresh_cookies(s, refreshOk) \o <<EvException("transport")>> \o delay_retry(t)

\* the else branch of `if r.status_code == 200`
BadStatusEvents(s, refreshOk, t) == refresh_cookies(s, refreshOk) \o delay_retry(t)

\* the except branch for an exception of the request itself
ExceptionEvents(s, t) == <<EvException("transport")>> \o delay_retry(t)

\* continue / falling off the loop body: the next value of range(3)
NextAttempt(a) == a + 1

\* slip: a rate-limited attempt is retried without being counted
AfterRateLimit_Free(a) == a

\* `continue` of the 429 branch
AfterRateLimit(a) == NextAttempt(a)

\* slip: the loop gives up one attempt early
LoopExhausted_Early(a) == a >= MAX_ATTEMPTS - 1

LoopExhausted(a) == a >= MAX_ATTEMPTS

OkOutcome(status, headers, payload) ==
  [ok |-> TRUE, response |-> ParseBody(payload), status_code |-> status, headers |-> headers]
\* slip: the failed outcome carries a body that reads as a linked account
FailedOutcome_LinkedBody ==
  [ok |-> FALSE,
   response |-> Dict(Str(S_register_email_existed), Bool(FALSE), Absent, Absent, Absent, Absent),
   status_code |-> 0, headers |-> {}]

\* the return after the loop
FailedOutcome ==
  [ok |-> FALSE, response |-> EmptyDict, status_code |-> 0, headers |-> {}]

\* the cookie jar after a response of service s
Answered(sess, s) == [sess EXCEPT !.cookies = @ \cup {s}]
\* refresh_ea_cookies also re-sets the session's Referer when its GET succeeded
Refreshed(sess, s, ok) ==
  IF ok /\ s = "EA" THEN [sess EXCEPT !.referer = EA_REFERER_PAGE] ELSE sess

(***************************************************************************)
(* The answers explored per world.  A plain service rate-limits without a  *)
(* reset header and fails with one status; a hostile one also sends        *)
(* usable, negative and malformed reset headers, several statuses, and     *)
(* lets the landing page fail.                                             *)
(***************************************************************************)
RateLimitHeadersIn(w) == IF w = "hostile" THEN RateLimitHeaders ELSE {{ContentType}}
OtherStatusesIn(w) == IF w = "hostile" THEN OtherStatuses ELSE {500}
BackoffIn(w) == IF w = "hostile" THEN BackoffSeconds ELSE {3}
RefreshOutcomesIn(w) == IF w = "hostile" THEN BOOLEAN ELSE {TRUE}
PayloadsIn(w, s) == IF w = "hostile" THEN Payloads(s) ELSE PlainPayloads(s)

(***************************************************************************)
(* check_ea_email / check_ms_name: one action per way an iteration of the  *)
(* for loop can go, and one for falling out of the loop.                   *)
(***************************************************************************)
ProbeOk(s) ==
  /\ pc = "probe" /\ svc = s /\ ~LoopExhausted(attempt)
  /\ \E payload \in PayloadsIn(world, s) :
       /\ hist' = hist \o <<EvRequest(s), EvResponse(200, HeadersPlain)>>
       /\ ret' = Some(OkOutcome(200, HeadersPlain, payload))
  /\ session' = Answered(session, s)
  /\ pc' = "returned"
  /\ UNCHANGED <<emails, idx, svc, attempt, result, msCalls, errors, clock, files, world, saves, interrupted>>
  /\ UNCHANGED ivars

ProbeRateLimited(s) ==
  /\ pc = "probe" /\ svc = s /\ ~LoopExhausted(attempt)
  /\ \E headers \in RateLimitHeadersIn(world), t \in BackoffIn(world) :
       hist' = hist \o <<EvRequest(s), EvResponse(429, headers)>> \o RateLimitEvents(headers, t)
  /\ attempt' = AfterRateLimit(attempt)
  /\ session' = Answered(session, s)
  /\ UNCHANGED <<emails, idx, pc, svc, ret, result, msCalls, errors, clock, files, world, saves, interrupted>>
  /\ UNCHANGED ivars

ProbeBadStatus(s) ==
  /\ pc = "probe" /\ svc = s /\ ~LoopExhausted(attempt)
  /\ \E status \in OtherStatusesIn(world), refreshOk \in RefreshOutcomesIn(world),
        t \in BackoffIn(world) :
       /\ hist' = hist \o <<EvRequest(s), EvResponse(status, HeadersPlain)>> \o BadStatusEvents(s, refreshOk, t)
       /\ session' = Refreshed(Answered(session, s), s, refreshOk)
  /\ attempt' = NextAttempt(attempt)
  /\ UNCHANGED <<emails, idx, pc, svc, ret, result, msCalls, errors, clock, files, world, saves, interrupted>>
  /\ UNCHANGED ivars

ProbeException(s) ==
  /\ pc = "probe" /\ svc = s /\ ~LoopExhausted(attempt)
  /\ \E t \in BackoffIn(world) :
       hist' = hist \o <<EvRequest(s)>> \o ExceptionEvents(s, t)
  /\ attempt' = NextAttempt(attempt)
  /\ UNCHANGED <<emails, idx, pc, svc, ret, result, session, msCalls, errors, clock, files, world, saves, interrupted>>
  /\ UNCHANGED ivars

ProbeExhausted(s) ==
  /\ pc = "probe" /\ svc = s /\ LoopExhausted(attempt)
  /\ ret' = Some(FailedOutcome)
  /\ pc' = "returned"
  /\ UNCHANGED <<emails, idx, svc, attempt, hist, result, session, msCalls, errors, clock, files,
                 world, saves, interrupted>>
  /\ UNCHANGED ivars

check_ea_email ==
  \/ ProbeOk("EA") \/ ProbeRateLimited("EA") \/ ProbeBadStatus("EA")
  \/ ProbeException("EA") \/ ProbeExhausted("EA")

check_ms_name ==
  \/ ProbeOk("MS") \/ ProbeRateLimited("MS") \/ ProbeBadStatus("MS")
  \/ ProbeException("MS") \/ ProbeExhausted("MS")

(***************************************************************************)
(* process_email.                                                          *)
(***************************************************************************)
NewResult(email, ts) ==
  [email |-> email, timestamp |-> ts, ea_check |-> None, ea_interpret |-> None,
   ms_check |-> None, ms_interpret |-> None, final_folder |-> None, note |-> None]

\* slips of the branch condition: the verdict is not looked at / a failed probe is not
EaNotLinked_OkOnly(ea, ea_interp) == ~ea.ok
EaNotLinked_VerdictOfOk(ea, ea_interp) == ea.ok /\ ~ea_interp.exists

\* `if not ea.get("ok") or not ea_interp.get("exists")`
EaNotLinked(ea, ea_interp) == ~ea.ok \/ ~ea_interp.exists

\* slip: anything but an explicit False counts as available
MsFolder_NotFalse(ms_interp) ==
  IF ms_interp.available # "False" THEN DIR_AVAILABLE ELSE DIR_NOT_AVAILABLE_EMAIL

\* `if ms_interp.get("available") is True`
MsFolder(ms_interp) ==
  IF ms_interp.available = "True" THEN DIR_AVAILABLE ELSE DIR_NOT_AVAILABLE_EMAIL

NoteOf(folder) ==
  CASE folder = DIR_EA_NOT_AVAILABLE -> "EA not linked or error"
    [] folder = DIR_AVAILABLE -> "EA linked and Microsoft available"
    [] OTHER -> "EA linked but Microsoft not available"

\* the record after the EA step when the pipeline short-circuits
NotLinkedRecord(res, ea, ea_interp) ==
  [res EXCEPT !.ea_check = Some(ea), !.ea_interpret = Some(ea_interp),
              !.final_folder = Some(DIR_EA_NOT_AVAILABLE),
              !.note = Some(NoteOf(DIR_EA_NOT_AVAILABLE))]

\* slip: the Microsoft probe's outcome is not stored
LinkedRecord_NoCheck(res, ms, ms_interp) ==
  [res EXCEPT !.ms_interpret = Some(ms_interp),
              !.final_folder = Some(MsFolder(ms_interp)),
              !.note = Some(NoteOf(MsFolder(ms_interp)))]

\* the record after the Microsoft step
LinkedRecord(res, ms, ms_interp) ==
  [res EXCEPT !.ms_check = Some(ms), !.ms_interpret = Some(ms_interp),
              !.final_folder = Some(MsFolder(ms_interp)),
              !.note = Some(NoteOf(MsFolder(ms_interp)))]

\* check_ea_email returned and interpret_ea_response raises: the exception leaves process_email
process_email_ea_raises ==
  /\ pc = "returned" /\ svc = "EA"
  /\ interpret_ea_response(Get(ret).response).raised
  /\ result' = [result EXCEPT !.ea_check = ret]
  /\ pc' = "raised"
  /\ hist' = <<>> /\ ret' = None
  /\ UNCHANGED <<emails, idx, svc, attempt, session, msCalls, errors, clock, files, world, saves, interrupted>>
  /\ UNCHANGED ivars

\* check_ea_email returned, the address is not linked (or the probe failed)
process_email_not_linked ==
  /\ pc = "returned" /\ svc = "EA"
  /\ LET ea == Get(ret)
         ea_interp == interpret_ea_response(ea.response)
     IN  /\ ~ea_interp.raised
         /\ EaNotLinked(ea, ea_interp)
         /\ result' = NotLinkedRecord(result, ea, ea_interp)
  /\ pc' = "classified"
  /\ hist' = <<>> /\ ret' = None
  /\ UNCHANGED <<emails, idx, svc, attempt, session, msCalls, errors, clock, files, world, saves, interrupted>>
  /\ UNCHANGED ivars

\* check_ea_email returned, the address is linked: check_ms_name is called
process_email_linked ==
  /\ pc = "returned" /\ svc = "EA"
  /\ LET ea == Get(ret)
         ea_interp == interpret_ea_response(ea.response)
     IN  /\ ~ea_interp.raised
         /\ ~EaNotLinked(ea, ea_interp)
         /\ result' = [result EXCEPT !.ea_check = Some(ea), !.ea_interpret = Some(ea_interp)]
  /\ msCalls' = msCalls + 1
  /\ svc' = "MS" /\ attempt' = 0 /\ hist' = <<>> /\ ret' = None
  /\ pc' = "probe"
  /\ UNCHANGED <<emails, idx, session, errors, clock, files, world, saves, interrupted>>
  /\ UNCHANGED ivars

\* check_ms_name returned: interpret and classify
process_email_ms ==
  /\ pc = "returned" /\ svc = "MS"
  /\ LET ms == Get(ret)
         ms_interp == interpret_ms_response(ms.response)
     IN  result' = LinkedRecord(result, ms, ms_interp)
  /\ pc' = "classified"
  /\ hist' = <<>> /\ ret' = None
  /\ UNCHANGED <<emails, idx, svc, attempt, session, msCalls, errors, clock, files, world, saves, interrupted>>
  /\ UNCHANGED ivars

\* dest = <final_folder>/<safe_filename(email)>_<int(time.time())>.json
FilePath(folder, email, ts) == <<folder, safe_filename(email), ts>>

\* the file at path after open(path, "w") (complete = FALSE: created or truncated, the
\* JSON text not yet all written) and after json.dump has run to its end; `by` is the
\* index of the address whose process_email call wrote it
Written(fs, path, data, by, complete) ==
  {f \in fs : f.path # path} \cup {[path |-> path, data |-> data, by |-> by, complete |-> complete]}

\* time is read again (whole seconds since the last reading: none or some), the folder
\* is made and dest is opened for writing
process_email_open ==
  /\ pc = "classified"
  /\ \E ts \in {clock, clock + 1} :
       /\ clock' = ts
       /\ files' = Written(files, FilePath(Get(result.final_folder), result.email, ts), result,
                           idx, FALSE)
  /\ pc' = "opened"
  /\ UNCHANGED <<emails, idx, svc, attempt, hist, ret, result, session, msCalls, errors, world,
                 saves, interrupted>>
  /\ UNCHANGED ivars

\* json.dump(result, f) completes, the file is closed, the summary is printed
process_email_save ==
  /\ pc = "opened"
  /\ LET dest == FilePath(Get(result.final_folder), result.email, clock)
     IN  /\ files' = Written(files, dest, result, idx, TRUE)
         /\ saves' = Append(saves, [idx |-> idx, path |-> dest])
  /\ pc' = "delay"
  /\ UNCHANGED <<emails, idx, svc, attempt, hist, ret, result, session, msCalls, errors, clock,
                 world, interrupted>>
  /\ UNCHANGED ivars

(***************************************************************************)
(* main: the loop over the addresses.                                      *)
(***************************************************************************)
\* slip: the list is consumed from its end
CurrentEmail_FromEnd(list, i) == list[Len(list) - i + 1]

\* `for idx, em in enumerate(emails, 1)`: the address of iteration i
CurrentEmail(list, i) == list[i]

\* next iteration: process_email(em) is entered and calls check_ea_email
main_next ==
  /\ pc = "main" /\ idx < Len(emails)
  /\ idx' = idx + 1
  /\ result' = NewResult(Strip(CurrentEmail(emails, idx + 1)), clock)
  /\ msCalls' = 0
  /\ svc' = "EA" /\ attempt' = 0 /\ hist' = <<>> /\ ret' = None
  /\ pc' = "probe"
  /\ UNCHANGED <<emails, session, errors, clock, files, world, saves, interrupted>>
  /\ UNCHANGED ivars

\* process_email returned: time.sleep(args.delay)
main_delay ==
  /\ pc = "delay"
  /\ pc' = "main"
  /\ UNCHANGED <<emails, idx, svc, attempt, hist, ret, result, session, msCalls, errors, clock,
                 files, world, saves, interrupted>>
  /\ UNCHANGED ivars

\* slip: the first error ends the run
main_except_Abort ==
  /\ pc = "raised"
  /\ errors' = Append(errors, idx)
  /\ pc' = "done"
  /\ UNCHANGED <<emails, idx, svc, attempt, hist, ret, result, session, msCalls, clock, files,
                 world, saves, interrupted>>
  /\ UNCHANGED ivars

\* slip: after an error the same address is tried again
main_except_Retry ==
  /\ pc = "raised"
  /\ idx' = idx - 1
  /\ pc' = "main"
  /\ UNCHANGED <<emails, svc, attempt, hist, ret, result, session, msCalls, errors, clock, files,
                 world, saves, interrupted>>
  /\ UNCHANGED ivars

\* except Exception: the error is printed and the loop goes on
main_except ==
  /\ pc = "raised"
  /\ errors' = Append(errors, idx)
  /\ pc' = "main"
  /\ UNCHANGED <<emails, idx, svc, attempt, hist, ret, result, session, msCalls, clock, files,
                 world, saves, interrupted>>
  /\ UNCHANGED ivars

\* the list is used up
main_finish ==
  /\ pc = "main" /\ idx = Len(emails)
  /\ pc' = "done"
  /\ UNCHANGED <<emails, idx, svc, attempt, hist, ret, result, session, msCalls, errors, clock,
                 files, world, saves, interrupted>>
  /\ UNCHANGED ivars

\* KeyboardInterrupt inside the try of the loop body (in a request, a sleep, an
\* interpreter, the save or the delay; no `except Exception` on the way catches it):
\* `except KeyboardInterrupt: break`
main_interrupt ==
  /\ pc \in {"probe", "returned", "classified", "opened", "delay"}
  /\ interrupted' = TRUE
  /\ pc' = "done"
  /\ UNCHANGED <<emails, idx, svc, attempt, hist, ret, result, session, msCalls, errors, clock,
                 files, world, saves>>
  /\ UNCHANGED ivars

\* KeyboardInterrupt outside the try (the "Processing" print, the except branch): it
\* leaves main uncaught and the process ends
main_killed ==
  /\ pc \in {"main", "raised"}
  /\ interrupted' = TRUE
  /\ pc' = "killed"
  /\ UNCHANGED <<emails, idx, svc, attempt, hist, ret, result, session, msCalls, errors, clock,
                 files, world, saves>>
  /\ UNCHANGED ivars

(***************************************************************************)
(* The run.                                                                *)
(***************************************************************************)
EmailLists(n) == UNION { [1..k -> Addresses] : k \in 1..n }

InitRun(w, n) ==
  /\ emails \in EmailLists(n)
  /\ idx = 0
  /\ pc = "main"
  /\ svc = "EA" /\ attempt = 0 /\ hist = <<>> /\ ret = None
  /\ result = NewResult(<<>>, 0)
  /\ session = [cookies |-> {}, referer |-> EA_REFERER_PAGE]
  /\ msCalls = 0
  /\ errors = <<>>
  /\ clock = 0
  /\ files = {}
  /\ world = w
  /\ saves = <<>>
  /\ interrupted = FALSE
  /\ ibody = EmptyDict /\ iverdictA = None /\ iverdictB = None /\ irerun = None

Init == InitRun("plain", MaxEmails)

\* the steps of the program itself
Program ==
  \/ main_next
  \/ check_ea_email
  \/ process_email_ea_raises
  \/ process_email_not_linked
  \/ process_email_linked
  \/ check_ms_name
  \/ process_email_ms
  \/ process_email_open
  \/ process_email_save
  \/ main_delay
  \/ main_except
  \/ main_finish

Next ==
  \/ Program
  \/ main_interrupt
  \/ main_killed

Spec == Init /\ [][Next]_vars

\* one address against services that use every answer they have
\* the run when every request returns and every sleep ends: a step of the program that
\* can be taken is taken; an interrupt may come or not.  Which address is processed
\* plays no part in whether a step can be taken: the lists repeat one address.
InitLive ==
  /\ InitRun("plain", MaxEmails)
  /\ \A i \in DOMAIN emails : emails[i] = <<"a", "@", "x", ".", "com">>

LiveSpec == InitLive /\ [][Next]_vars /\ WF_vars(Program)

InitProbe == InitRun("hostile", 1)
ProbeSpec == InitProbe /\ [][Next]_vars

(***************************************************************************)
(* The interpreters on their own, over every body of InterpBodies.         *)
(***************************************************************************)
InitInterp ==
  /\ ibody \in InterpBodies
  /\ iverdictA = None /\ iverdictB = None /\ irerun = None
  /\ emails = <<>> /\ idx = 0 /\ pc = "interp"
  /\ svc = "EA" /\ attempt = 0 /\ hist = <<>> /\ ret = None
  /\ result = NewResult(<<>>, 0)
  /\ session = [cookies |-> {}, referer |-> EA_REFERER_PAGE]
  /\ msCalls = 0 /\ errors = <<>> /\ clock = 0 /\ files = {} /\ world = "plain"
  /\ saves = <<>> /\ interrupted = FALSE

InterpretA ==
  /\ pc = "interp" /\ iverdictA = None
  /\ iverdictA' = Some(interpret_ea_response(ibody))
  /\ UNCHANGED <<ibody, iverdictB, irerun>>
  /\ UNCHANGED pvars

InterpretB ==
  /\ pc = "interp" /\ iverdictB = None
  /\ iverdictB' = Some(interpret_ms_response(ibody))
  /\ UNCHANGED <<ibody, iverdictA, irerun>>
  /\ UNCHANGED pvars

\* the interpreter run again on its own output
ReinterpretA ==
  /\ pc = "interp" /\ iverdictA # None /\ ~Get(iverdictA).raised /\ irerun = None
  /\ irerun' = Some(interpret_ea_response(VerdictBody(Get(iverdictA))))
  /\ UNCHANGED <<ibody, iverdictA, iverdictB>>
  /\ UNCHANGED pvars

NextInterp == InterpretA \/ InterpretB \/ ReinterpretA

InterpSpec == InitInterp /\ [][NextInterp]_vars

(***************************************************************************)
(* Properties of the pipeline.                                             *)
(***************************************************************************)
Buckets == {DIR_EA_NOT_AVAILABLE, DIR_NOT_AVAILABLE_EMAIL, DIR_AVAILABLE}

VerdictATrue == result.ea_interpret # None /\ Get(result.ea_interpret).exists

\* C1: within one process_email call, check_ms_name has been invoked exactly once
\* if Interpreter A's verdict is true, and not at all while there is no verdict or
\* the verdict is not true; only a true verdict ever has Probe B running.
C1_ProbeBOnceIffVerdictTrue ==
  /\ msCalls = IF VerdictATrue THEN 1 ELSE 0
  /\ (pc \in {"probe", "returned"} /\ svc = "MS") => VerdictATrue

C1_Witness ==
  /\ pc = "classified" /\ VerdictATrue /\ msCalls = 1
  /\ \E f \in files : f.data.ea_interpret # None /\ ~Get(f.data.ea_interpret).exists
                      /\ f.data.ms_check = None

\* C2: when check_ea_email has exhausted its attempts, the address is classified
\* ea_not_available, check_ms_name is not called and no exception leaves process_email.
C2_ProbeAFailedNotLinked ==
  (result.ea_check # None /\ ~Get(result.ea_check).ok) =>
     /\ result.final_folder = Some(DIR_EA_NOT_AVAILABLE)
     /\ msCalls = 0
     /\ pc # "raised"
     /\ \A i \in DOMAIN errors : errors[i] # idx

C2_Witness ==
  /\ pc = "delay"
  /\ result.ea_check = Some(FailedOutcome)
  /\ \E f \in files : f.data = result /\ f.path[1] = DIR_EA_NOT_AVAILABLE

RecordShape(r) ==
  /\ r.final_folder # None /\ Get(r.final_folder) \in Buckets
  /\ (r.ms_check # None /\ r.ms_interpret # None) <=> (Get(r.final_folder) # DIR_EA_NOT_AVAILABLE)
  /\ (r.ms_check = None /\ r.ms_interpret = None) <=> (Get(r.final_folder) = DIR_EA_NOT_AVAILABLE)

\* C3: every record process_email returns (and writes) has exactly one of the three
\* buckets as final_folder, and ms_check and ms_interpret are populated if and only
\* if that bucket is not ea_not_available.
C3_RecordBucketAndServiceBFields ==
  /\ pc \in {"classified", "delay"} => RecordShape(result)
  /\ \A f \in files : RecordShape(f.data) /\ f.path[1] = Get(f.data.final_folder)

C3_Witness ==
  /\ pc = "delay"
  /\ result.final_folder = Some(DIR_NOT_AVAILABLE_EMAIL)
  /\ result.ms_check # None /\ result.ms_interpret # None
  /\ \E f \in files : f.data.final_folder = Some(DIR_EA_NOT_AVAILABLE) /\ f.data.ms_check = None

\* C4: once check_ms_name has been called for an address, the bucket is available
\* exactly when Interpreter B's decision is True, and not_available_email for a
\* decision of False or None, a failed Probe B included.
C4_BucketAfterProbeB ==
  (msCalls = 1 /\ result.final_folder # None) =>
     /\ result.ms_interpret # None
     /\ (Get(result.ms_interpret).available = "True" => Get(result.final_folder) = DIR_AVAILABLE)
     /\ (Get(result.ms_interpret).available \in {"False", "None"}
           => Get(result.final_folder) = DIR_NOT_AVAILABLE_EMAIL)
     /\ (~Get(result.ms_check).ok => Get(result.final_folder) = DIR_NOT_AVAILABLE_EMAIL)

C4_Witness ==
  /\ pc = "classified" /\ msCalls = 1
  /\ result.ms_check = Some(FailedOutcome)
  /\ Get(result.ms_interpret).available = "None"
  /\ result.final_folder = Some(DIR_NOT_AVAILABLE_EMAIL)
  /\ \E f \in files : f.data.final_folder = Some(DIR_AVAILABLE)

(***************************************************************************)
(* Properties of one probe call, read off its history.                     *)
(***************************************************************************)
IsRequest(e) == e.ev = "request"
IsRateLimited(e) == e.ev = "response" /\ e.n = 429
IsBadStatus(e) == e.ev = "response" /\ e.n \notin {200, 429}
IsTransportError(e) == e.ev = "exception" /\ e.s = "transport"

RequestsUpTo(i) == Cardinality({j \in 1..i : IsRequest(hist[j])})
Requests == RequestsUpTo(Len(hist))

\* after the attempt whose last event is hist[j]: a retry, or - after the third - the return
RetriedIfLeft(j) ==
  IF RequestsUpTo(j) < MAX_ATTEMPTS
    THEN j < Len(hist) /\ IsRequest(hist[j + 1])
    ELSE j = Len(hist) /\ ret = Some(FailedOutcome)

C6_RefreshBackoffRetryAfterEveryFailure ==
  pc = "returned" =>
    \A i \in DOMAIN hist :
      (IsBadStatus(hist[i]) \/ IsTransportError(hist[i])) =>
         /\ i + 3 <= Len(hist)
         /\ hist[i + 1].ev = "refresh"
         /\ hist[i + 2].ev = "backoff"
         /\ IsRequest(hist[i + 3])

\* C6 amended: an attempt that ends in a non-200, non-429 status is followed by the
\* refresh of its own service's landing page and then the backoff; an attempt that
\* ends in a transport exception is followed by the backoff alone, without refresh;
\* either way the attempt counts, and the request is retried only if it was not the
\* third attempt - after the third the probe returns the failed outcome.
C6_RefreshOnlyAfterStatusRetryIfLeft ==
  pc = "returned" =>
    \A i \in DOMAIN hist :
      /\ IsBadStatus(hist[i]) =>
           /\ i + 2 <= Len(hist)
           /\ hist[i + 1].ev = "refresh" /\ hist[i + 1].s = RefererPage(svc)
           /\ hist[i + 2].ev = "backoff"
           /\ RetriedIfLeft(i + 2)
      /\ IsTransportError(hist[i]) =>
           /\ i + 1 <= Len(hist)
           /\ hist[i + 1].ev = "backoff"
           /\ RetriedIfLeft(i + 1)

C6_Witness ==
  /\ pc = "returned" /\ ret = Some(FailedOutcome)
  /\ Len(hist) = 11
  /\ IsTransportError(hist[2]) /\ hist[3].ev = "backoff"
  /\ IsBadStatus(hist[5]) /\ hist[6].ev = "refresh" /\ hist[7].ev = "backoff"
  /\ IsBadStatus(hist[9]) /\ hist[10] = EvRefresh(RefererPage(svc), FALSE)
  /\ hist[11].ev = "backoff"

\* C7: a probe returns either ok with status 200, on the first attempt answered with
\* 200, or not ok with status 0, no headers and an empty body, after 3 attempts none
\* of which was answered with 200; a transport failure never leaves the probe as an
\* exception.
C7_OutcomeShapes ==
  /\ pc = "probe" => \A i \in DOMAIN hist : ~(hist[i].ev = "response" /\ hist[i].n = 200)
  /\ pc = "returned" =>
       LET o == Get(ret)
           oks == {i \in DOMAIN hist : hist[i].ev = "response" /\ hist[i].n = 200}
       IN  \/ /\ o.ok /\ o.status_code = 200
              /\ oks = {Len(hist)}
           \/ /\ ~o.ok /\ o.status_code = 0 /\ o.headers = {} /\ o.response = EmptyDict
              /\ oks = {}
              /\ Requests = 3
  /\ pc = "raised" => result.ea_check # None

C7_Witness ==
  /\ pc = "returned" /\ ~Get(ret).ok
  /\ Cardinality({i \in DOMAIN hist : IsTransportError(hist[i])}) = 3

WellFormedReset(h) == ResetTime(h) # None /\ Get(ResetTime(h)) >= 0

\* C8 as stated: after a 429 (whose reset header is absent or a delay in seconds)
\* the probe sleeps for that delay, 60 seconds if absent, and then retries the request.
C8_SleepThenRetryAfter429 ==
  pc = "returned" =>
    \A i \in DOMAIN hist :
      (IsRateLimited(hist[i]) /\ WellFormedReset(hist[i].h)) =>
         /\ i + 2 <= Len(hist)
         /\ hist[i + 1] = EvRateSleep(Get(ResetTime(hist[i].h)))
         /\ IsRequest(hist[i + 2])

\* C8 amended: after a 429 whose reset header is absent or a non-negative integer
\* the probe sleeps for that delay (60 seconds if absent); with a negative or
\* non-integer header it takes the randomized backoff instead.  The request is then
\* retried only if the 429 was not the probe's third attempt: after a third-attempt
\* 429 the probe still sleeps and then returns the failed outcome.
C8_SleepThenRetryIfAttemptLeft ==
  pc = "returned" =>
    \A i \in DOMAIN hist :
      IsRateLimited(hist[i]) =>
        IF WellFormedReset(hist[i].h)
          THEN /\ i + 1 <= Len(hist)
               /\ hist[i + 1] = EvRateSleep(Get(ResetTime(hist[i].h)))
               /\ RetriedIfLeft(i + 1)
          ELSE /\ i + 2 <= Len(hist)
               /\ hist[i + 1] = EvException("ValueError")
               /\ hist[i + 2].ev = "backoff"
               /\ RetriedIfLeft(i + 2)

C8_Witness ==
  /\ pc = "returned" /\ ret = Some(FailedOutcome)
  /\ Len(hist) >= 3
  /\ IsRateLimited(hist[Len(hist) - 1])
  /\ hist[Len(hist)] = EvRateSleep(2)
  /\ hist[3] = EvRateSleep(DEFAULT_RESET)

(***************************************************************************)
(* Properties of the interpreters: the documented rule lists, first match  *)
(* wins, against what the functions return.                                *)
(***************************************************************************)
\* the message as the rules read it: the lower-cased string, nothing if it is no string
MessageText(body) == IF body.message.t = "str" THEN Lower(body.message.s) ELSE <<>>
BodyText(body) == Lower(JsonDumps(body))

\* the number of the first rule of Interpreter A's documented list that matches
RuleA(body) ==
  IF ~body.dict THEN 1
  ELSE IF Contains(MessageText(body), S_register_email_existed) THEN 2
  ELSE IF Contains(MessageText(body), S_register_email_not_existed) THEN 3
  ELSE IF \/ body.status = Bool(FALSE) /\ Contains(MessageText(body), S_existed)
          \/ body.status = Bool(TRUE) /\ Contains(MessageText(body), S_not_existed) THEN 4
  ELSE IF \/ Contains(BodyText(body), S_existed) /\ ~Contains(BodyText(body), S_not)
          \/ Contains(BodyText(body), S_not_existed)
          \/ Contains(BodyText(body), S_does_not_exist) THEN 5
  ELSE 6

\* the decision that rule gives
DecisionA(body) ==
  CASE RuleA(body) = 2 -> TRUE
    [] RuleA(body) = 4 -> body.status = Bool(FALSE)
    [] RuleA(body) = 5 -> Contains(BodyText(body), S_existed) /\ ~Contains(BodyText(body), S_not)
    [] OTHER -> FALSE

\* C9: for every body interpret_ea_response returns the verdict of the first matching
\* rule of the documented order (1 not a dict, 2 register_email_existed, 3
\* register_email_not_existed, 4 status with existed / not_existed, 5 text scan,
\* 6 no clear indicator).
C9_FirstMatchingRuleA ==
  iverdictA # None =>
    LET v == Get(iverdictA)
    IN  /\ ~v.raised
        /\ v.exists = DecisionA(ibody)
        /\ RuleA(ibody) = 1 => v.reason = "not_a_dict"
        /\ RuleA(ibody) = 6 => v.reason = "no_clear_indicator"

TriOf(b) == IF b THEN "True" ELSE "False"

TextNegativeB(body) ==
  \/ Contains(BodyText(body), S_notavailable)
  \/ Contains(BodyText(body), S_already)
  \/ Contains(BodyText(body), S_taken)
TextPositiveB(body) == Contains(BodyText(body), S_available) /\ ~Contains(BodyText(body), S_not)
TextDecisionB(body) ==
  IF TextNegativeB(body) THEN "False" ELSE IF TextPositiveB(body) THEN "True" ELSE "None"

\* C10 as stated: interpret_ms_response returns the verdict of the first matching
\* rule: 1 not a dict -> None; 2 isAvailable present -> its (boolean) value; 3 a
\* non-empty suggestions list -> False; 4 the text scan; 5 None.
C10_FirstMatchingRuleB ==
  iverdictB # None =>
    LET a == Get(iverdictB).available
    IN  IF ~ibody.dict THEN a = "None"
        ELSE IF ibody.isAvailable.t # "absent"
          THEN ibody.isAvailable.t = "bool" => a = TriOf(ibody.isAvailable.b)
        ELSE IF ibody.suggestions.t = "list" /\ ibody.suggestions.l # <<>> THEN a = "False"
        ELSE a = TextDecisionB(ibody)

\* C10 amended: as stated, except that rule 2 gives the truth value bool(value) of the
\* isAvailable field (the value itself when it is a boolean) and rule 3 fires for
\* every truthy suggestions value (a non-empty list, but also a non-empty string,
\* true or a non-zero number), before the text scan is reached.
C10_FirstMatchingRuleBTruthy ==
  iverdictB # None =>
    LET a == Get(iverdictB).available
    IN  IF ~ibody.dict THEN a = "None"
        ELSE IF ibody.isAvailable.t # "absent"
          THEN /\ ibody.isAvailable.t = "bool" => a = TriOf(ibody.isAvailable.b)
               /\ a = TriOf(Truthy(ibody.isAvailable))
        ELSE IF ibody.suggestions.t \in {"list", "str", "bool", "num"}
                /\ ibody.suggestions \notin {List(<<>>), Str(<<>>), Bool(FALSE), Num(0)}
          THEN a = "False"
        ELSE a = TextDecisionB(ibody)

C10_Witness ==
  /\ iverdictB # None
  /\ ibody.isAvailable = Bool(TRUE)
  /\ ibody.suggestions = List(<<<<"a@b.com">>>>)
  /\ ibody.detail = Str(S_notavailable)
  /\ Get(iverdictB).available = "True"

(***************************************************************************)
(* Malformed payloads.                                                     *)
(***************************************************************************)
\* C11: whatever body a service sends with HTTP 200, interpreting it raises nothing:
\* no exception leaves process_email and main never lands in its except branch.
C11_MalformedPayloadIsNoError ==
  /\ pc # "raised"
  /\ errors = <<>>

(***************************************************************************)
(* Interpreter A on its own output.                                        *)
(***************************************************************************)
HeuristicReasons == {"text_heuristic_positive", "text_heuristic_negative"}

\* C12 as stated: when the verdict of a body comes from the full-text heuristic,
\* interpreting that verdict (as a body) again gives the same decision.
C12_HeuristicIdempotent ==
  (irerun # None /\ Get(iverdictA).reason \in HeuristicReasons) =>
     Get(irerun).exists = Get(iverdictA).exists

\* C12 amended: when the verdict of a body comes from the full-text heuristic,
\* interpreting that verdict again gives false / no_clear_indicator: the same
\* decision after text_heuristic_negative, the opposite one after
\* text_heuristic_positive.
C12_HeuristicRerunIsFalse ==
  (irerun # None /\ Get(iverdictA).reason \in HeuristicReasons) =>
     /\ Get(irerun) = VerdictA(FALSE, "no_clear_indicator")
     /\ (Get(irerun).exists = Get(iverdictA).exists)
          <=> (Get(iverdictA).reason = "text_heuristic_negative")

C12_Witness ==
  /\ irerun # None
  /\ Get(iverdictA) = VerdictA(TRUE, "text_heuristic_positive")
  /\ ibody.detail = Str(S_existed)
  /\ ~Get(irerun).exists

(***************************************************************************)
(* The main loop: errors, interrupts, order, files.                        *)
(***************************************************************************)
Indices(log) == {log[k] : k \in 1..Len(log)}
SavedIndices == {saves[k].idx : k \in 1..Len(saves)}
Failed(i) == i \in Indices(errors)
Saved(i) == i \in SavedIndices

\* C13: an exception raised while one address is processed is caught in main and the
\* loop goes on with the next address: while the run is not interrupted, every
\* address before the current one has ended in a saved record or in a reported error,
\* whatever failed before it, and main returns only after the last address.
C13_ErrorsDoNotStopTheLoop ==
  ~interrupted =>
     /\ \A i \in 1..(idx - 1) : Failed(i) \/ Saved(i)
     /\ \A i \in 1..Len(emails) : ~(Failed(i) /\ Saved(i))
     /\ pc = "done" => /\ idx = Len(emails)
                       /\ \A i \in 1..Len(emails) : Failed(i) \/ Saved(i)

C13_Witness ==
  /\ pc = "done" /\ ~interrupted
  /\ errors = <<1>>
  /\ SavedIndices = {2}

\* C14: once an interrupt has been delivered the run has stopped (main has returned
\* or the process has ended), no file belongs to an address after the current one,
\* and unless the record of the current address was saved, no file of it exists,
\* neither a complete nor a partial one.
C14_InterruptPersistsNothingUnsaved ==
  interrupted =>
     /\ pc \in {"done", "killed"}
     /\ \A f \in files : f.by <= idx
     /\ ~Saved(idx) => \A f \in files : f.by # idx

InProgress == pc \in {"probe", "returned", "classified", "opened", "delay", "raised"}

\* C15: the addresses are processed one at a time in input order: the address being
\* processed is the one at position idx of the list; every address before it has
\* ended (saved or reported) and none after it has been touched; saves and errors are
\* logged in increasing position; every file was written for the address at its
\* writer's position; every request of a probe is answered (or has failed) before
\* anything else happens, so no two requests are ever outstanding.
C15_OneAddressAtATimeInOrder ==
  /\ idx \in 0..Len(emails)
  /\ InProgress => result.email = Strip(emails[idx])
  /\ \A i \in 1..(idx - 1) : Failed(i) \/ Saved(i)
  /\ \A i \in SavedIndices \cup Indices(errors) : i <= idx
  /\ \A k \in 1..(Len(saves) - 1) : saves[k].idx < saves[k + 1].idx
  /\ \A k \in 1..(Len(errors) - 1) : errors[k] < errors[k + 1]
  /\ \A f \in files : f.by \in 1..idx /\ f.data.email = Strip(emails[f.by])
  /\ \A j \in 1..Len(hist) :
       IsRequest(hist[j]) => j < Len(hist) /\ hist[j + 1].ev \in {"response", "exception"}

C15_Witness ==
  /\ pc = "returned" /\ svc = "MS"
  /\ idx = 2 /\ emails[1] # emails[2]
  /\ Saved(1)
  /\ Requests = 2

\* C16: every record is persisted exactly once, in a file of its own: after a run that
\* was not interrupted there are as many record files as there were completed saves,
\* one at the path of each save, and each save's file holds the record of the address
\* that save was for.
C16_OneFilePerSavedRecord ==
  (pc = "done" /\ ~interrupted) =>
     /\ Cardinality(files) = Len(saves)
     /\ \A k \in 1..Len(saves) :
          \E f \in files : f.path = saves[k].path /\ f.by = saves[k].idx /\ f.complete

(***************************************************************************)
(* Refresh failures, verdict and probe outcome, what follows 200 and 429.  *)
(***************************************************************************)
IsRefresh(e) == e.ev = "refresh"
IsFailedRefresh(e) == IsRefresh(e) /\ e.n = 0

\* C17: a refresh that fails is swallowed: it is reported as false or true, nothing is
\* raised out of it, and whether it failed or not it is followed by the backoff and -
\* if an attempt is left - by the next request; each attempt costs one attempt, so a
\* failed refresh leaves the number of remaining attempts as a successful one does.
C17_RefreshFailureSwallowed ==
  /\ \A i \in DOMAIN hist :
       IsRefresh(hist[i]) =>
         /\ hist[i].n \in {0, 1}
         /\ i < Len(hist) /\ hist[i + 1].ev = "backoff"
         /\ pc = "returned" => RetriedIfLeft(i + 1)
  /\ pc = "probe" => attempt = Requests
  /\ pc = "returned" => Get(ret).ok = (hist[Len(hist)] = EvResponse(200, HeadersPlain))

C17_Witness ==
  /\ pc = "returned" /\ Get(ret).ok
  /\ Len(hist) = 6
  /\ IsBadStatus(hist[2]) /\ IsFailedRefresh(hist[3])
  /\ hist[4].ev = "backoff" /\ IsRequest(hist[5])

\* C18: Interpreter A's verdict is true only for a probe outcome that succeeded: the
\* body of a failed outcome interprets as false; hence at the branch of process_email
\* the test `not ok or not exists` decides as `not exists` alone does, and the bucket
\* is ea_not_available exactly when the verdict is not true.
C18_VerdictTrueOnlyIfProbeOk ==
  /\ VerdictATrue => result.ea_check # None /\ Get(result.ea_check).ok
  /\ (pc = "returned" /\ svc = "EA") =>
       LET ea == Get(ret)
           ea_interp == interpret_ea_response(ea.response)
       IN  /\ ~ea.ok => ~ea_interp.raised /\ ~ea_interp.exists
           /\ ~ea_interp.raised => (EaNotLinked(ea, ea_interp) <=> ~ea_interp.exists)
  /\ result.final_folder # None =>
       (Get(result.final_folder) = DIR_EA_NOT_AVAILABLE <=> ~VerdictATrue)

C18_Witness ==
  /\ pc = "classified"
  /\ ~Get(result.ea_check).ok
  /\ Get(result.ea_check).response = EmptyDict
  /\ Get(result.ea_interpret) = VerdictA(FALSE, "no_clear_indicator")
  /\ result.final_folder = Some(DIR_EA_NOT_AVAILABLE)

IsOk(e) == e.ev = "response" /\ e.n = 200
OwnPage == IF svc = "EA" THEN EA_REFERER_PAGE ELSE MS_REFERER_PAGE
EndsOrRetries(j) == j = Len(hist) \/ IsRequest(hist[j + 1])

\* nothing follows a 200 in the probe, a probe
\* answered 200 at once consists of the request and its answer alone, and a refresh
\* comes only directly after a non-200, non-429 status and only for the landing page
\* of the probe's own service
RefreshFrame ==
  /\ \A i \in DOMAIN hist : IsOk(hist[i]) => i = Len(hist)
  /\ (pc = "returned" /\ Get(ret).ok /\ Requests = 1) => Len(hist) = 2
  /\ \A i \in DOMAIN hist :
       IsRefresh(hist[i]) => /\ i > 1 /\ IsBadStatus(hist[i - 1])
                             /\ hist[i].s = OwnPage

\* C19 as stated: no refresh and no backoff follows an attempt answered 200 or 429;
\* an attempt answered 429 performs the rate-limit sleep and nothing else; a probe
\* refreshes only its own service's landing page.
C19_NoRefreshNoBackoffAfter200Or429 ==
  /\ RefreshFrame
  /\ \A i \in DOMAIN hist :
       IsRateLimited(hist[i]) =>
         /\ i < Len(hist) /\ hist[i + 1].ev = "sleep"
         /\ EndsOrRetries(i + 1)

\* C19 amended: as stated, except that an attempt answered 429 performs only the
\* rate-limit sleep when its reset header is absent or a non-negative integer; with a
\* negative or non-integer header it performs the randomized backoff instead of the
\* sleep - and neither way a refresh.
C19_NoRefreshAfter200Or429 ==
  /\ RefreshFrame
  /\ \A i \in DOMAIN hist :
       IsRateLimited(hist[i]) =>
         IF WellFormedReset(hist[i].h)
           THEN /\ i < Len(hist) /\ hist[i + 1] = EvRateSleep(Get(ResetTime(hist[i].h)))
                /\ EndsOrRetries(i + 1)
           ELSE /\ i + 2 <= Len(hist)
                /\ hist[i + 1] = EvException("ValueError")
                /\ hist[i + 2].ev = "backoff"
                /\ EndsOrRetries(i + 2)

C19_Witness ==
  /\ pc = "returned" /\ svc = "MS" /\ Get(ret).ok
  /\ Len(hist) = 10
  /\ IsRateLimited(hist[2]) /\ ~WellFormedReset(hist[2].h) /\ hist[4].ev = "backoff"
  /\ IsBadStatus(hist[6]) /\ hist[7].s = MS_REFERER_PAGE /\ IsRefresh(hist[7])
  /\ IsOk(hist[10])

(***************************************************************************)
(* Termination.                                                            *)
(***************************************************************************)
AllAccounted == \A i \in 1..Len(emails) : Failed(i) \/ Saved(i)

\* C20: when requests return and sleeps end, every probe call returns its outcome,
\* every process_email call ends - saved in a bucket or raising -, and the run over
\* the list ends, with every address saved or reported as an error; each of these
\* unless an interrupt is delivered first.
C20_EverythingTerminates ==
  /\ (pc = "probe") ~> (pc = "returned" \/ interrupted)
  /\ (pc \in {"probe", "returned", "classified", "opened"})
        ~> (pc \in {"delay", "raised"} \/ interrupted)
  /\ <>(pc \in {"done", "killed"} /\ (~interrupted => AllAccounted))

C20_Witness ==
  /\ pc = "done" /\ ~interrupted
  /\ Len(emails) = MaxEmails /\ Saved(1) /\ Failed(MaxEmails)

====
